---- MODULE Spec2Model ----
(***************************************************************************)
(* The two command-line programs of the repository, main.py (alumnos,      *)
(* cursos, operaciones_log) and inventory.py (productos, ventas), as one   *)
(* state machine over the PostgreSQL database they share.                  *)
(*                                                                         *)
(* A handler is modelled statement by statement: get_connection, execute,  *)
(* commit, the nested log_operation, close.  The database keeps a          *)
(* committed state (db) and the working copy of the handler's open         *)
(* transaction (tx); commit copies tx to db, an abandoned transaction is   *)
(* discarded.  Sequences (SERIAL) advance outside the transaction.         *)
(***************************************************************************)
EXTENDS Integers, Sequences, FiniteSets, TLC

VARIABLES
    prog,      \* which program runs: "main" (main.py) or "inventory" (inventory.py)
    pc,        \* position of the menu loop / of the handler being run
    cur,       \* the handler being run ("none" while awaiting input)
    inp,       \* the lines read by input() for this handler
    db,        \* committed database state
    tx,        \* working copy inside the handler's open transaction, if any
    conn,      \* the handler's connection: "closed" or "open"
    logconn,   \* log_operation's connection: "closed" or "open"
    leaked,    \* connections abandoned without close() (error branches)
    rowcount,  \* cursor.rowcount after the handler's statement
    flags,     \* what this invocation has committed so far
    pre,       \* committed state when the handler was dispatched, if one runs
    steps,     \* statements the handler has gone through since it was dispatched
    out,       \* what the handler printed: status and rows shown
    opcion     \* the line read at the menu prompt, while it is being dispatched

vars == <<prog, pc, cur, inp, db, tx, conn, logconn, leaked, rowcount, flags, pre,
          steps, out, opcion>>

(***************************************************************************)
(* Bounds of the model.                                                    *)
(***************************************************************************)
MaxAlumnos == 2     \* values the alumnos id sequence may hand out
MaxCursos == 1      \* values the cursos id sequence may hand out
MaxLog == 2         \* rows of operaciones_log
MaxLeaked == 1      \* abandoned connections not yet finalized
MaxProductos == 2   \* productos rows typed in (besides the sample data)
MaxVentas == 1      \* ventas rows typed in (besides the sample data)

\* an optional value is a sequence of length 0 or 1
None == <<>>
Some(v) == <<v>>

(***************************************************************************)
(* Column types of the schema.                                             *)
(***************************************************************************)
VarcharLimit == 100

\* a text of 101 characters, one more than VARCHAR(100) holds
LongText == "0123456789012345678901234567890123456789012345678901234567890123456789"
            \o "0123456789012345678901234567890"

\* VARCHAR(100): a longer value is rejected by the database
FitsVarchar(s) == Len(s) <= VarcharLimit

(***************************************************************************)
(* Text typed at the console is a string; psycopg2 passes it as a quoted   *)
(* literal and the database converts it to the column type.                *)
(***************************************************************************)
IsDigit(c) == c \in {"0", "1", "2", "3", "4", "5", "6", "7", "8", "9"}

DigitVal(c) ==
    CASE c = "0" -> 0 [] c = "1" -> 1 [] c = "2" -> 2 [] c = "3" -> 3
      [] c = "4" -> 4 [] c = "5" -> 5 [] c = "6" -> 6 [] c = "7" -> 7
      [] c = "8" -> 8 [] c = "9" -> 9

Last(s) == SubSeq(s, Len(s), Len(s))
ButLast(s) == SubSeq(s, 1, Len(s) - 1)

RECURSIVE LStrip(_)
LStrip(s) == IF Len(s) > 0 /\ Head(s) = " " THEN LStrip(Tail(s)) ELSE s

RECURSIVE RStrip(_)
RStrip(s) == IF Len(s) > 0 /\ Last(s) = " " THEN RStrip(ButLast(s)) ELSE s

RECURSIVE DigitsVal(_)
DigitsVal(s) ==
    IF Len(s) = 0 THEN 0 ELSE 10 * DigitsVal(ButLast(s)) + DigitVal(Last(s))

RECURSIVE AllDigits(_)
AllDigits(s) == Len(s) = 0 \/ (IsDigit(Head(s)) /\ AllDigits(Tail(s)))

Signed(s) == Len(s) > 0 /\ Head(s) \in {"-", "+"}
Unsigned(s) == IF Signed(s) THEN Tail(s) ELSE s
SignOf(s) == IF Len(s) > 0 /\ Head(s) = "-" THEN -1 ELSE 1

\* PostgreSQL's integer input: blanks around, an optional sign, digits only;
\* None stands for "invalid input syntax for type integer"
Int4In(text) ==
    LET s == RStrip(LStrip(text))
        body == Unsigned(s)
    IN  IF Len(body) = 0 \/ ~AllDigits(body) THEN None
        ELSE Some(SignOf(s) * DigitsVal(body))

RECURSIVE BeforeDot(_)
BeforeDot(s) ==
    IF Len(s) = 0 \/ Head(s) = "." THEN "" ELSE Head(s) \o BeforeDot(Tail(s))

RECURSIVE AfterDot(_)
AfterDot(s) ==
    IF Len(s) = 0 THEN "" ELSE IF Head(s) = "." THEN Tail(s) ELSE AfterDot(Tail(s))

RECURSIVE StripZeros(_)
StripZeros(s) == IF Len(s) > 0 /\ Head(s) = "0" THEN StripZeros(Tail(s)) ELSE s

RECURSIVE Pow10(_)
Pow10(n) == IF n = 0 THEN 1 ELSE 10 * Pow10(n - 1)

\* DECIMAL(10, 2)
PrecioPrecision == 10
PrecioScale == 2

\* m / 10^k rounded half away from zero to PrecioScale decimals, in hundredths
RoundTruncating(m, k) ==
    IF k <= PrecioScale THEN m * Pow10(PrecioScale - k)
    ELSE m \div Pow10(k - PrecioScale)

RoundToScale(m, k) ==
    IF k <= PrecioScale THEN m * Pow10(PrecioScale - k)
    ELSE LET unit == Pow10(k - PrecioScale)
         IN  (m \div unit) + (IF 2 * (m % unit) >= unit THEN 1 ELSE 0)

\* the decimal text as typed: digits with at most one point
IsDecimalText(body) ==
    /\ AllDigits(BeforeDot(body)) /\ AllDigits(AfterDot(body))
    /\ Len(BeforeDot(body)) + Len(AfterDot(body)) > 0

\* PostgreSQL's numeric input into a DECIMAL(10, 2) column: the value in
\* hundredths; None for invalid syntax and for "numeric field overflow"
NumericIn(text) ==
    LET s == RStrip(LStrip(text))
        body == Unsigned(s)
        int == StripZeros(BeforeDot(body))
        frac == AfterDot(body)
    IN  IF ~IsDecimalText(body) THEN None
        ELSE IF Len(int) > PrecioPrecision - PrecioScale THEN None
        ELSE LET cents == RoundToScale(DigitsVal(int \o frac), Len(frac))
             IN  IF cents \div Pow10(PrecioScale) >= Pow10(PrecioPrecision - PrecioScale)
                 THEN None ELSE Some(SignOf(s) * cents)

\* a date literal 'YYYY-MM-DD' cast to timestamp: midnight of that day
TimestampIn(text) ==
    [day |-> DigitsVal(SubSeq(text, 1, 4)) * 10000 + DigitsVal(SubSeq(text, 6, 7)) * 100
                + DigitsVal(SubSeq(text, 9, 10)),
     secs |-> 0]

(***************************************************************************)
(* Schema: CREATE TABLE IF NOT EXISTS.                                     *)
(***************************************************************************)
MainTables == {"cursos", "alumnos", "operaciones_log"}
InventoryTables == {"productos", "ventas"}
AllTables == MainTables \cup InventoryTables

ColumnDefs(t) ==
    CASE t = "cursos" -> <<"id", "nombre", "profesor", "creditos", "activo", "created_at">>
      [] t = "alumnos" ->
            <<"id", "nombre", "email", "carrera", "curso_id", "activo", "created_at">>
      [] t = "operaciones_log" ->
            <<"id", "fecha_hora", "operacion", "descripcion", "usuario", "tabla",
              "query_ejecutado", "detalles">>
      [] t = "productos" -> <<"id", "nombre", "precio", "stock">>
      [] t = "ventas" -> <<"id", "producto_id", "cantidad", "fecha_venta">>

EmptyRows(t) == IF t = "operaciones_log" THEN <<>> ELSE {}

\* the column list of a table that does not exist
Absent == <<>>

Exists(d, t) == d.schema[t] # Absent

\* CREATE TABLE IF NOT EXISTS t (...): nothing happens when t exists
CreateTableDropFirst(d, t) ==
    [d EXCEPT !.schema[t] = ColumnDefs(t), !.rows[t] = EmptyRows(t), !.seq[t] = 0]

CreateTableIfNotExists(d, t) ==
    IF Exists(d, t) THEN d ELSE [d EXCEPT !.schema[t] = ColumnDefs(t)]

\* a database with no tables
EmptyDb ==
    [schema |-> [t \in AllTables |-> Absent],
     rows |-> [t \in AllTables |-> EmptyRows(t)],
     seq |-> [t \in AllTables |-> 0]]

\* the tables and their contents, without the sequences
Contents(d) == [schema |-> d.schema, rows |-> d.rows]

\* SERIAL: nextval is not undone by a rollback, so it advances in the
\* committed state and in the working copy alike
NextVal(d, t) == [d EXCEPT !.seq[t] = @ + 1]

Ids(rows) == {r.id : r \in rows}

(***************************************************************************)
(* Inputs typed at the prompts.                                            *)
(***************************************************************************)
NoInput == [none |-> TRUE]

AlumnoInputs ==
    {[nombre |-> "Ana", email |-> "ana@uni.edu", carrera |-> "Fisica"],
     [nombre |-> LongText, email |-> "x@uni.edu", carrera |-> "Historia"]}

CursoInputs ==
    {[nombre |-> "Algebra", profesor |-> "Ruiz", creditos |-> "4"],
     [nombre |-> "Logica", profesor |-> "Sanz", creditos |-> "seis"]}

\* identifiers as typed: existing ones, one padded with a blank, one that is
\* never handed out, and one that is no number
IdInputs == {"1", "2 ", "7", "x"}

UpdateInputs == {[alumno_id |-> i, nuevo_nombre |-> "Eva"] : i \in IdInputs}

DeleteInputs == {[alumno_id |-> i] : i \in IdInputs}

(***************************************************************************)
(* The statements of main.py, applied to the working copy d of the         *)
(* transaction.  Each yields None when the database raises an error.       *)
(***************************************************************************)
\* create_tables_query: three CREATE TABLE IF NOT EXISTS in one execute
CreateTablesQuery(d) ==
    CreateTableIfNotExists(
        CreateTableIfNotExists(CreateTableIfNotExists(d, "cursos"), "alumnos"),
        "operaciones_log")

\* INSERT INTO alumnos (nombre, email, carrera) VALUES (%s, %s, %s)
InsertAlumno(d, i) ==
    IF ~Exists(d, "alumnos") \/ ~FitsVarchar(i.nombre) \/ ~FitsVarchar(i.email)
          \/ ~FitsVarchar(i.carrera)
    THEN None
    ELSE Some([d EXCEPT
                 !.seq["alumnos"] = @ + 1,
                 !.rows["alumnos"] = @ \cup
                     {[id |-> d.seq["alumnos"] + 1, nombre |-> i.nombre,
                       email |-> i.email, carrera |-> i.carrera, curso_id |-> None]}])

\* INSERT INTO cursos (nombre, profesor, creditos) VALUES (%s, %s, %s) RETURNING id, nombre
InsertCurso(d, i) ==
    IF ~Exists(d, "cursos") \/ ~FitsVarchar(i.nombre) \/ ~FitsVarchar(i.profesor)
          \/ Int4In(i.creditos) = None
    THEN None
    ELSE Some([d EXCEPT
                 !.seq["cursos"] = @ + 1,
                 !.rows["cursos"] = @ \cup
                     {[id |-> d.seq["cursos"] + 1, nombre |-> i.nombre,
                       profesor |-> i.profesor, creditos |-> Int4In(i.creditos)[1]]}])

\* the rows a WHERE id = %s selects; the parameter is the text typed
Matching(rows, idText) ==
    IF Int4In(idText) = None THEN {} ELSE {r \in rows : r.id = Int4In(idText)[1]}

\* UPDATE alumnos SET nombre = %s WHERE id = %s
UpdateAlumnoAll(d, i) ==
    IF ~Exists(d, "alumnos") \/ Int4In(i.alumno_id) = None \/ ~FitsVarchar(i.nuevo_nombre)
    THEN None
    ELSE Some([d EXCEPT !.rows["alumnos"] =
                 {[r EXCEPT !.nombre = i.nuevo_nombre] : r \in @}])

UpdateAlumno(d, i) ==
    IF ~Exists(d, "alumnos") \/ Int4In(i.alumno_id) = None \/ ~FitsVarchar(i.nuevo_nombre)
    THEN None
    ELSE Some([d EXCEPT !.rows["alumnos"] =
                 {IF r \in Matching(d.rows["alumnos"], i.alumno_id)
                  THEN [r EXCEPT !.nombre = i.nuevo_nombre] ELSE r : r \in @}])

\* DELETE FROM alumnos WHERE id = %s
DeleteAlumnoUpTo(d, i) ==
    IF ~Exists(d, "alumnos") \/ Int4In(i.alumno_id) = None
    THEN None
    ELSE Some([d EXCEPT !.rows["alumnos"] =
                 {r \in @ : r.id > Int4In(i.alumno_id)[1]}])

DeleteAlumno(d, i) ==
    IF ~Exists(d, "alumnos") \/ Int4In(i.alumno_id) = None
    THEN None
    ELSE Some([d EXCEPT !.rows["alumnos"] = @ \ Matching(d.rows["alumnos"], i.alumno_id)])

\* cursor.rowcount of the UPDATE or DELETE
RowCount(d, i) == Cardinality(Matching(d.rows["alumnos"], i.alumno_id))

\* INSERT INTO operaciones_log (operacion, descripcion, tabla, detalles)
\* a log table that holds the latest operation only
InsertLogKeepingLast(d, operacion) ==
    IF ~Exists(d, "operaciones_log") THEN None
    ELSE Some([d EXCEPT
                 !.seq["operaciones_log"] = @ + 1,
                 !.rows["operaciones_log"] =
                     <<[id |-> d.seq["operaciones_log"] + 1,
                        operacion |-> operacion, tabla |-> "alumnos"]>>])

InsertLog(d, operacion) ==
    IF ~Exists(d, "operaciones_log") THEN None
    ELSE Some([d EXCEPT
                 !.seq["operaciones_log"] = @ + 1,
                 !.rows["operaciones_log"] =
                     Append(@, [id |-> d.seq["operaciones_log"] + 1,
                                operacion |-> operacion, tabla |-> "alumnos"])])

(***************************************************************************)
(* The statements of inventory.py.                                         *)
(***************************************************************************)
ProductInputs ==
    {[nombre |-> "Laptop Gaming", precio |-> "1299.99", stock |-> "5"],
     [nombre |-> "Cable", precio |-> " 0.995", stock |-> "12"],
     [nombre |-> "Pendrive", precio |-> "9.5", stock |-> "0"],
     [nombre |-> "Funda", precio |-> "15", stock |-> "3"],
     [nombre |-> "Hub USB", precio |-> "gratis", stock |-> "1"],
     [nombre |-> "Yate", precio |-> "123456789.00", stock |-> "1"],
     [nombre |-> "Mouse", precio |-> "49.99", stock |-> "3.5"]}

SaleInputs ==
    {[producto_id |-> "1", cantidad |-> "2"],
     [producto_id |-> "2 ", cantidad |-> "30"],
     [producto_id |-> "9", cantidad |-> "1"],
     [producto_id |-> "x", cantidad |-> "1"],
     [producto_id |-> "1", cantidad |-> "dos"]}

\* CURRENT_TIMESTAMP when a sale is typed in: the last day of the sample data
Clock == {[day |-> 20240325, secs |-> 37800]}

\* create_tables_query of create_inventory_tables
CreateInventoryTablesQuery(d) ==
    CreateTableIfNotExists(CreateTableIfNotExists(d, "productos"), "ventas")

\* INSERT INTO productos (nombre, precio, stock) VALUES (%s, %s, %s) RETURNING id, nombre
InsertProduct(d, i) ==
    IF ~Exists(d, "productos") \/ ~FitsVarchar(i.nombre) \/ NumericIn(i.precio) = None
          \/ Int4In(i.stock) = None \/ d.seq["productos"] + 1 \in Ids(d.rows["productos"])
    THEN None
    ELSE Some([d EXCEPT
                 !.seq["productos"] = @ + 1,
                 !.rows["productos"] = @ \cup
                     {[id |-> d.seq["productos"] + 1, nombre |-> i.nombre,
                       precio |-> NumericIn(i.precio)[1], stock |-> Int4In(i.stock)[1]]}])

\* producto_id INTEGER REFERENCES productos(id)
ForeignKeyOk(d, producto_id) == producto_id \in Ids(d.rows["productos"])

\* INSERT INTO ventas (producto_id, cantidad) VALUES (%s, %s) RETURNING id
InsertSaleUnchecked(d, i, now) ==
    IF ~Exists(d, "ventas") \/ Int4In(i.producto_id) = None \/ Int4In(i.cantidad) = None
    THEN None
    ELSE Some([d EXCEPT
                 !.seq["ventas"] = @ + 1,
                 !.rows["ventas"] = @ \cup
                     {[id |-> d.seq["ventas"] + 1, producto_id |-> Int4In(i.producto_id)[1],
                       cantidad |-> Int4In(i.cantidad)[1], fecha_venta |-> now]}])

\* an INSERT INTO ventas that also takes the quantity sold off the stock
InsertSaleTakingStock(d, i, now) ==
    IF ~Exists(d, "ventas") \/ Int4In(i.producto_id) = None \/ Int4In(i.cantidad) = None
    THEN None
    ELSE IF ~ForeignKeyOk(d, Int4In(i.producto_id)[1]) THEN None
    ELSE Some([d EXCEPT
                 !.seq["ventas"] = @ + 1,
                 !.rows["ventas"] = @ \cup
                     {[id |-> d.seq["ventas"] + 1, producto_id |-> Int4In(i.producto_id)[1],
                       cantidad |-> Int4In(i.cantidad)[1], fecha_venta |-> now]},
                 !.rows["productos"] =
                     {IF p.id = Int4In(i.producto_id)[1]
                      THEN [p EXCEPT !.stock = @ - Int4In(i.cantidad)[1]] ELSE p : p \in @}])

InsertSale(d, i, now) ==
    IF ~Exists(d, "ventas") \/ Int4In(i.producto_id) = None \/ Int4In(i.cantidad) = None
    THEN None
    ELSE IF ~ForeignKeyOk(d, Int4In(i.producto_id)[1]) THEN None
    ELSE Some([d EXCEPT
                 !.seq["ventas"] = @ + 1,
                 !.rows["ventas"] = @ \cup
                     {[id |-> d.seq["ventas"] + 1, producto_id |-> Int4In(i.producto_id)[1],
                       cantidad |-> Int4In(i.cantidad)[1], fecha_venta |-> now]}])

\* the working copy when InsertSale raises: the id default was already drawn
\* from the sequence when the foreign key is checked
InsertSaleRaised(d, i) ==
    IF Exists(d, "ventas") /\ Int4In(i.producto_id) # None /\ Int4In(i.cantidad) # None
    THEN NextVal(d, "ventas") ELSE d

\* SELECT id, nombre, precio, stock FROM productos
SelectProducts(d) ==
    IF ~Exists(d, "productos") THEN None ELSE Some(d.rows["productos"])

\* SELECT v.id, p.nombre, v.cantidad, v.fecha_venta FROM ventas v JOIN productos p ...
SelectSales(d) ==
    IF ~Exists(d, "productos") \/ ~Exists(d, "ventas") THEN None
    ELSE Some({[id |-> v.id, nombre |-> p.nombre, cantidad |-> v.cantidad,
                fecha_venta |-> v.fecha_venta]
               : <<v, p>> \in {x \in d.rows["ventas"] \X d.rows["productos"] :
                                 x[1].producto_id = x[2].id}})

\* productos_ejemplo
productos_ejemplo ==
    <<[nombre |-> "Laptop Gaming", precio |-> "1299.99", stock |-> 5],
      [nombre |-> "Monitor 24'", precio |-> "199.99", stock |-> 15],
      [nombre |-> "Teclado Mecanico", precio |-> "89.99", stock |-> 20],
      [nombre |-> "Mouse Gamer", precio |-> "49.99", stock |-> 30],
      [nombre |-> "Auriculares RGB", precio |-> "79.99", stock |-> 12],
      [nombre |-> "Webcam HD", precio |-> "59.99", stock |-> 8],
      [nombre |-> "Mousepad XL", precio |-> "19.99", stock |-> 25],
      [nombre |-> "Hub USB", precio |-> "29.99", stock |-> 18]>>

\* ventas_ejemplo: (producto_id, cantidad, fecha_venta)
ventas_ejemplo ==
    << <<1, 2, "2024-01-01">>, <<2, 3, "2024-01-01">>, <<3, 1, "2024-01-02">>,
       <<4, 2, "2024-01-02">>, <<5, 2, "2024-01-03">>, <<1, 1, "2024-01-03">>,
       <<2, 2, "2024-01-04">>, <<3, 3, "2024-01-05">>,
       <<1, 3, "2024-02-01">>, <<2, 2, "2024-02-01">>, <<4, 4, "2024-02-02">>,
       <<5, 1, "2024-02-02">>, <<3, 2, "2024-02-03">>, <<1, 1, "2024-02-03">>,
       <<2, 3, "2024-02-04">>, <<4, 2, "2024-02-05">>,
       <<1, 2, "2024-03-01">>, <<5, 3, "2024-03-01">>, <<2, 2, "2024-03-02">>,
       <<3, 4, "2024-03-02">>, <<4, 1, "2024-03-03">>, <<1, 2, "2024-03-03">>,
       <<5, 2, "2024-03-04">>, <<2, 1, "2024-03-05">>,
       <<1, 3, "2024-03-15">>, <<2, 2, "2024-03-15">>, <<3, 2, "2024-03-16">>,
       <<4, 3, "2024-03-16">>, <<5, 1, "2024-03-17">>, <<1, 2, "2024-03-17">>,
       <<2, 4, "2024-03-18">>, <<3, 1, "2024-03-18">>, <<4, 2, "2024-03-19">>,
       <<5, 3, "2024-03-19">>, <<1, 1, "2024-03-20">>, <<2, 2, "2024-03-20">>,
       <<3, 3, "2024-03-21">>, <<4, 4, "2024-03-21">>, <<5, 2, "2024-03-22">>,
       <<1, 3, "2024-03-22">>, <<2, 3, "2024-03-23">>, <<3, 2, "2024-03-23">>,
       <<4, 3, "2024-03-24">>, <<5, 4, "2024-03-24">>, <<1, 2, "2024-03-25">>,
       <<2, 3, "2024-03-25">> >>

\* TRUNCATE TABLE ventas RESTART IDENTITY CASCADE
TruncateVentas(d) ==
    IF ~Exists(d, "ventas") THEN None
    ELSE Some([d EXCEPT !.rows["ventas"] = {}, !.seq["ventas"] = 0])

\* TRUNCATE TABLE productos RESTART IDENTITY CASCADE: ventas references
\* productos, so the cascade truncates it and restarts its sequence as well
TruncateProductos(d) ==
    IF ~Exists(d, "productos") THEN None
    ELSE Some([d EXCEPT !.rows["productos"] = {}, !.seq["productos"] = 0,
                        !.rows["ventas"] = IF Exists(d, "ventas") THEN {} ELSE @,
                        !.seq["ventas"] = IF Exists(d, "ventas") THEN 0 ELSE @])

\* one INSERT INTO productos of the executemany, with values adapted by psycopg2
InsertProductRow(d, p) ==
    IF d.seq["productos"] + 1 \in Ids(d.rows["productos"]) \/ NumericIn(p.precio) = None
    THEN None
    ELSE Some([d EXCEPT
                 !.seq["productos"] = @ + 1,
                 !.rows["productos"] = @ \cup
                     {[id |-> d.seq["productos"] + 1, nombre |-> p.nombre,
                       precio |-> NumericIn(p.precio)[1], stock |-> p.stock]}])

\* an INSERT INTO ventas that leaves fecha_venta to DEFAULT CURRENT_TIMESTAMP
InsertSaleRowDefaultDate(d, v) ==
    IF ~ForeignKeyOk(d, v[1]) \/ d.seq["ventas"] + 1 \in Ids(d.rows["ventas"]) THEN None
    ELSE Some([d EXCEPT
                 !.seq["ventas"] = @ + 1,
                 !.rows["ventas"] = @ \cup
                     {[id |-> d.seq["ventas"] + 1, producto_id |-> v[1],
                       cantidad |-> v[2], fecha_venta |-> CHOOSE c \in Clock : TRUE]}])

\* one INSERT INTO ventas (producto_id, cantidad, fecha_venta) of the executemany
InsertSaleRow(d, v) ==
    IF ~ForeignKeyOk(d, v[1]) \/ d.seq["ventas"] + 1 \in Ids(d.rows["ventas"]) THEN None
    ELSE Some([d EXCEPT
                 !.seq["ventas"] = @ + 1,
                 !.rows["ventas"] = @ \cup
                     {[id |-> d.seq["ventas"] + 1, producto_id |-> v[1],
                       cantidad |-> v[2], fecha_venta |-> TimestampIn(v[3])]}])

\* cursor.executemany(query, list): the statement once per element, in order;
\* None as soon as one raises
ExecuteRow(table, d, x) ==
    IF table = "productos" THEN InsertProductRow(d, x) ELSE InsertSaleRow(d, x)

RECURSIVE ExecuteMany(_, _, _, _)
ExecuteMany(table, d, list, k) ==
    IF k > Len(list) THEN Some(d)
    ELSE IF ExecuteRow(table, d, list[k]) = None THEN None
    ELSE ExecuteMany(table, ExecuteRow(table, d, list[k])[1], list, k + 1)

\* SELECT id, nombre, email, carrera FROM alumnos
SelectAlumnos(d) ==
    IF ~Exists(d, "alumnos") THEN None
    ELSE Some({[id |-> r.id, nombre |-> r.nombre, email |-> r.email,
                carrera |-> r.carrera] : r \in d.rows["alumnos"]})

\* SELECT c.*, COUNT(a.id) FROM cursos c LEFT JOIN alumnos a ON c.id = a.curso_id GROUP BY c.id
SelectCursos(d) ==
    IF ~Exists(d, "cursos") \/ ~Exists(d, "alumnos") THEN None
    ELSE Some({[id |-> c.id, nombre |-> c.nombre, profesor |-> c.profesor,
                creditos |-> c.creditos,
                total_alumnos |->
                    Cardinality({a \in d.rows["alumnos"] : a.curso_id = Some(c.id)})]
               : c \in d.rows["cursos"]})

LogLimit == 10

\* SELECT ... FROM operaciones_log ORDER BY fecha_hora DESC LIMIT 10
SelectLogs(d) ==
    IF ~Exists(d, "operaciones_log") THEN None
    ELSE LET log == d.rows["operaciones_log"]
             n == IF Len(log) < LogLimit THEN Len(log) ELSE LogLimit
         IN  Some([k \in 1..n |-> log[Len(log) + 1 - k]])

(***************************************************************************)
(* Control: the menu loop and the steps every handler goes through.        *)
(***************************************************************************)
InventoryOptions == {"1", "2", "3.1", "3.2", "4.1", "4.2", "5.1", "5.2", "5.3", "6"}

MainOptions == {"1", "2.1", "2.2", "3.1", "3.2", "3.3", "3.4", "4", "5"}

\* lines typed at "Elige una opcion": the options of both menus, the empty
\* line, a word, and an option followed by a blank
OptionInputs == MainOptions \cup InventoryOptions \cup {"", "salir", "5 "}

\* no line is being dispatched
NoOption == "none"

\* an if/elif chain that compares the line without its trailing blanks
MainHandlerStripped(line) ==
    CASE RStrip(line) = "1" -> "create_tables"
      [] RStrip(line) = "2.1" -> "insert_curso"
      [] RStrip(line) = "2.2" -> "view_cursos"
      [] RStrip(line) = "3.1" -> "insert_data"
      [] RStrip(line) = "3.2" -> "fetch_data"
      [] RStrip(line) = "3.3" -> "update_data"
      [] RStrip(line) = "3.4" -> "delete_data"
      [] RStrip(line) = "4" -> "view_logs"
      [] RStrip(line) = "5" -> "exit"
      [] OTHER -> "invalid"

\* the if/elif chain of main_menu
MainHandler(line) ==
    CASE line = "1" -> "create_tables"
      [] line = "2.1" -> "insert_curso"
      [] line = "2.2" -> "view_cursos"
      [] line = "3.1" -> "insert_data"
      [] line = "3.2" -> "fetch_data"
      [] line = "3.3" -> "update_data"
      [] line = "3.4" -> "delete_data"
      [] line = "4" -> "view_logs"
      [] line = "5" -> "exit"
      [] OTHER -> "invalid"

\* the if/elif chain of main_inventory_menu
InventoryHandler(line) ==
    CASE line = "1" -> "create_inventory_tables"
      [] line = "2" -> "insert_sample_data"
      [] line = "3.1" -> "insert_product"
      [] line = "3.2" -> "view_products"
      [] line = "4.1" -> "insert_sale"
      [] line = "4.2" -> "view_sales"
      [] line = "5.1" -> "generate_analytics"
      [] line = "5.2" -> "generate_advanced_analytics"
      [] line = "5.3" -> "generate_projections"
      [] line = "6" -> "exit"
      [] OTHER -> "invalid"

\* the prompts a handler shows before its try block
InputsOf(h) ==
    CASE h = "insert_curso" -> CursoInputs
      [] h = "insert_data" -> AlumnoInputs
      [] h = "update_data" -> UpdateInputs
      [] h = "delete_data" -> DeleteInputs
      [] h = "insert_product" -> ProductInputs
      [] h = "insert_sale" -> SaleInputs
      [] OTHER -> {NoInput}

\* a handler that goes on to log_operation without conn.commit()
CommitsOnlySchema(h) == h \in {"create_tables", "create_inventory_tables"}

\* handlers that call conn.commit()
Commits(h) ==
    h \in {"create_tables", "insert_curso", "insert_data", "update_data", "delete_data",
           "create_inventory_tables", "insert_product", "insert_sale",
           "insert_sample_data"}

\* the operacion a handler passes to log_operation
LogKind(h) ==
    CASE h = "create_tables" -> "CREATE"
      [] h \in {"insert_curso", "insert_data"} -> "INSERT"
      [] h = "fetch_data" -> "SELECT"
      [] h = "update_data" -> "UPDATE"
      [] h = "delete_data" -> "DELETE"
      [] OTHER -> "none"

\* whether the handler calls log_operation, given cursor.rowcount
\* a handler that logs whatever cursor.rowcount says
CallsLogAlways(h, rc) == LogKind(h) # "none"

CallsLog(h, rc) ==
    /\ LogKind(h) # "none"
    /\ h \in {"update_data", "delete_data"} => rc > 0

\* status: "ok", "notfound", "error", "invalid", "exit"; error: what the
\* exception printed was about, and at which statement it was raised;
\* logerror: log_operation printed its own error message
NoOut == [status |-> "none", rows |-> {}, error |-> "none", at |-> "none",
          logerror |-> FALSE]
NoFlags == [primary |-> FALSE, log |-> FALSE]

\* identifiers handed out to rows typed in, before or after a sample load
Typed(seq, sample) == IF seq >= sample THEN seq - sample ELSE seq

\* the model follows a handler only while its tables stay within the bounds
WithinBounds(h) ==
    /\ leaked < MaxLeaked
    /\ LogKind(h) # "none" => Len(db.rows["operaciones_log"]) < MaxLog
    /\ h = "insert_data" => db.seq["alumnos"] < MaxAlumnos
    /\ h = "insert_curso" => db.seq["cursos"] < MaxCursos
    /\ h = "insert_product" => Typed(db.seq["productos"], Len(productos_ejemplo)) < MaxProductos
    /\ h = "insert_sale" => Typed(db.seq["ventas"], Len(ventas_ejemplo)) < MaxVentas

Init ==
    /\ prog \in {"main", "inventory"}
    /\ pc = "menu"
    /\ cur = "none"
    /\ inp = NoInput
    /\ db = EmptyDb
    /\ tx = None
    /\ conn = "closed"
    /\ logconn = "closed"
    /\ leaked = 0
    /\ rowcount = -1
    /\ flags = NoFlags
    /\ pre = None
    /\ steps = 0
    /\ out = NoOut
    /\ opcion = NoOption

\* main_menu: read a line, run the matching handler up to its try block
MainMenu ==
    /\ prog = "main" /\ pc = "menu"
    /\ \E line \in OptionInputs :
         LET h == MainHandler(line) IN
           /\ h \notin {"exit", "invalid"} => WithinBounds(h)
           /\ \E i \in InputsOf(h) :
                /\ opcion' = line
                /\ cur' = h
                /\ inp' = i
                /\ pc' = CASE h = "exit" -> "exited"
                           [] h = "invalid" -> "done"
                           [] OTHER -> "connect"
                /\ out' = [NoOut EXCEPT
                             !.status = IF h \in {"exit", "invalid"} THEN h ELSE "none"]
                /\ pre' = Some(db)
    /\ steps' = 0
    /\ UNCHANGED <<prog, db, tx, conn, logconn, leaked, rowcount, flags>>

\* main_inventory_menu: read a line, run the matching handler up to its try block
InventoryMenu ==
    /\ prog = "inventory" /\ pc = "menu"
    /\ \E line \in OptionInputs :
         LET h == InventoryHandler(line) IN
           /\ h \notin {"exit", "invalid"} => WithinBounds(h)
           /\ \E i \in InputsOf(h) :
                /\ opcion' = line
                /\ cur' = h
                /\ inp' = i
                /\ pc' = CASE h = "exit" -> "exited"
                           [] h = "invalid" -> "done"
                           [] OTHER -> "connect"
                /\ out' = [NoOut EXCEPT
                             !.status = IF h \in {"exit", "invalid"} THEN h ELSE "none"]
                /\ pre' = Some(db)
    /\ steps' = 0
    /\ UNCHANGED <<prog, db, tx, conn, logconn, leaked, rowcount, flags>>

\* conn = get_connection(); cursor = conn.cursor()
Connect ==
    /\ pc = "connect"
    /\ conn' = "open"
    /\ tx' = Some(db)
    /\ pc' = "execute"
    /\ steps' = steps + 1
    /\ UNCHANGED <<prog, opcion, cur, inp, db, logconn, leaked, rowcount, flags, pre, out>>

\* get_connection() raises: the handler's except branch prints the error
ConnectFail ==
    /\ pc = "connect"
    /\ out' = [out EXCEPT !.status = "error", !.error = "connection", !.at = pc]
    /\ pc' = "done"
    /\ steps' = steps + 1
    /\ UNCHANGED <<prog, opcion, cur, inp, db, tx, conn, logconn, leaked, rowcount, flags, pre>>

\* sequences a transaction advanced stay advanced when it is abandoned
KeepSeq(d, w) == [d EXCEPT !.seq = w.seq]

\* no except branch: the exception ends the process
RaiseUncaught(w, kind) ==
    /\ out' = [out EXCEPT !.status = "error", !.error = kind, !.at = pc]
    /\ pc' = "exited"
    /\ conn' = "closed"
    /\ leaked' = leaked + 1
    /\ tx' = None
    /\ db' = IF w = None \/ cur = "insert_sample_data" THEN db ELSE KeepSeq(db, w[1])
    /\ steps' = steps + 1
    /\ UNCHANGED <<prog, opcion, cur, inp, logconn, rowcount, flags, pre>>

\* a connection in autocommit mode: what the statements did so far stays
RaiseAfterAutocommit(w, kind) ==
    /\ out' = [out EXCEPT !.status = "error", !.error = kind, !.at = pc]
    /\ pc' = "done"
    /\ conn' = "closed"
    /\ leaked' = leaked + 1
    /\ tx' = None
    /\ db' = IF w = None THEN db ELSE w[1]
    /\ steps' = steps + 1
    /\ UNCHANGED <<prog, opcion, cur, inp, logconn, rowcount, flags, pre>>

\* an exception inside the try block after the connection was opened: the
\* except branch prints; conn.close() and conn.rollback() are not called, so
\* the connection is abandoned and the server discards its transaction
RaiseFrom(w, kind) ==
    /\ out' = [out EXCEPT !.status = "error", !.error = kind, !.at = pc]
    /\ pc' = "done"
    /\ conn' = "closed"
    /\ leaked' = leaked + 1
    /\ tx' = None
    /\ db' = IF w = None \/ cur = "insert_sample_data" THEN db ELSE KeepSeq(db, w[1])
    /\ steps' = steps + 1
    /\ UNCHANGED <<prog, opcion, cur, inp, logconn, rowcount, flags, pre>>

\* the database (or the formatting of its answer) rejects the statement
Rejected == RaiseFrom(tx, "rejected")

\* the connection is lost
Lost == RaiseFrom(tx, "connection")

\* cursor.execute(query, params) of handler h: result is the new working copy
\* (None when the database raises, leaving the working copy raised), rc the
\* rowcount, shown the rows fetched
ExecuteOr(h, result, rc, shown, raised) ==
    /\ pc = "execute" /\ cur = h
    /\ IF result = None \/ shown = None
       THEN RaiseFrom(raised, "rejected")
       ELSE /\ tx' = result
            /\ rowcount' = rc
            /\ out' = [out EXCEPT !.rows = shown[1]]
            /\ pc' = IF Commits(h) THEN "commit"
                     ELSE IF CallsLog(h, rc) THEN "log_connect" ELSE "close"
            /\ steps' = steps + 1
            /\ UNCHANGED <<prog, opcion, cur, inp, db, conn, logconn, leaked, flags, pre>>

Execute(h, result, rc, shown) == ExecuteOr(h, result, rc, shown, tx)

ExecCreateTables == Execute("create_tables", Some(CreateTablesQuery(tx[1])), -1, Some({}))

ExecInsertCurso == Execute("insert_curso", InsertCurso(tx[1], inp), 1, Some({}))

ExecViewCursos == Execute("view_cursos", tx, -1, SelectCursos(tx[1]))

ExecInsertData == Execute("insert_data", InsertAlumno(tx[1], inp), 1, Some({}))

ExecFetchData == Execute("fetch_data", tx, -1, SelectAlumnos(tx[1]))

ExecUpdateData ==
    Execute("update_data", UpdateAlumno(tx[1], inp), RowCount(tx[1], inp), Some({}))

ExecDeleteData ==
    Execute("delete_data", DeleteAlumno(tx[1], inp), RowCount(tx[1], inp), Some({}))

ExecViewLogs == Execute("view_logs", tx, -1, SelectLogs(tx[1]))

(***************************************************************************)
(* inventory.py                                                            *)
(***************************************************************************)
ExecCreateInventoryTables ==
    Execute("create_inventory_tables", Some(CreateInventoryTablesQuery(tx[1])), -1, Some({}))

ExecInsertProduct == Execute("insert_product", InsertProduct(tx[1], inp), 1, Some({}))

ExecViewProducts == Execute("view_products", tx, -1, SelectProducts(tx[1]))

ExecInsertSale ==
    \E now \in Clock :
        ExecuteOr("insert_sale", InsertSale(tx[1], inp, now), 1, Some({}),
                  Some(InsertSaleRaised(tx[1], inp)))

ExecViewSales == Execute("view_sales", tx, -1, SelectSales(tx[1]))

\* the report queries read productos and ventas and change nothing
\* FROM ventas v JOIN productos p ON v.producto_id = p.id
JoinedSales(d) ==
    {v \in d.rows["ventas"] : \E p \in d.rows["productos"] : p.id = v.producto_id}

PriceOf(d, producto_id) == (CHOOSE p \in d.rows["productos"] : p.id = producto_id).precio

\* DATE(fecha_venta)
DateOf(fecha_venta) == fecha_venta.day

\* GROUP BY dia
SalesOn(d, dia) == {v \in JoinedSales(d) : DateOf(v.fecha_venta) = dia}

\* SUM(v.cantidad * p.precio), in hundredths; printed with ":.2f", which
\* shows a value of two decimals as it is
RECURSIVE SumIngresos(_, _)
SumIngresos(d, sales) ==
    IF sales = {} THEN 0
    ELSE LET v == CHOOSE x \in sales : TRUE
         IN  v.cantidad * PriceOf(d, v.producto_id) + SumIngresos(d, sales \ {v})

\* SUM(v.cantidad)
RECURSIVE SumCantidad(_)
SumCantidad(sales) ==
    IF sales = {} THEN 0
    ELSE LET v == CHOOSE x \in sales : TRUE IN v.cantidad + SumCantidad(sales \ {v})

\* ORDER BY dia ASC
RECURSIVE AscendingDays(_)
AscendingDays(days) ==
    IF days = {} THEN <<>>
    ELSE LET m == CHOOSE x \in days : \A y \in days : y >= x
         IN  <<m>> \o AscendingDays(days \ {m})

\* ORDER BY dia DESC
RECURSIVE DescendingDays(_)
DescendingDays(days) ==
    IF days = {} THEN <<>>
    ELSE LET m == CHOOSE x \in days : \A y \in days : y <= x
         IN  <<m>> \o DescendingDays(days \ {m})

DayLimit == 7

\* LIMIT n
Limit(seq, n) == SubSeq(seq, 1, IF Len(seq) < n THEN Len(seq) ELSE n)

\* analytics_queries["ventas_por_dia"]
VentasPorDia(d) ==
    LET dias == Limit(DescendingDays({DateOf(v.fecha_venta) : v \in JoinedSales(d)}),
                      DayLimit)
    IN  [k \in 1..Len(dias) |->
            [dia |-> dias[k],
             total_ventas |-> Cardinality(SalesOn(d, dias[k])),
             ingresos_total |-> SumIngresos(d, SalesOn(d, dias[k]))]]

LowStock == 10
CriticalStock == 5

\* a CASE without its first branch: a stock of 0 falls to the second
EstadoWithoutZero(stock) ==
    CASE stock < CriticalStock -> "Critico"
      [] stock >= CriticalStock /\ stock < LowStock -> "Bajo"
      [] OTHER -> "Normal"

\* CASE WHEN stock = 0 ... WHEN stock < 5 ... WHEN stock < 10 ... ELSE ... END,
\* the labels without their pictograms
Estado(stock) ==
    CASE stock = 0 -> "Sin stock"
      [] stock # 0 /\ stock < CriticalStock -> "Critico"
      [] stock # 0 /\ stock >= CriticalStock /\ stock < LowStock -> "Bajo"
      [] OTHER -> "Normal"

\* ORDER BY stock ASC: every order of the rows in which stock never
\* decreases; rows of equal stock come in any order
RECURSIVE OrdersByStock(_)
OrdersByStock(rows) ==
    IF rows = {} THEN {<<>>}
    ELSE UNION {{<<r>> \o rest : rest \in OrdersByStock(rows \ {r})} :
                r \in {x \in rows : \A y \in rows : y.stock >= x.stock}}

\* analytics_queries["stock_critico"]: the sequences of rows the query may return
StockCritico(d) ==
    {[k \in 1..Len(o) |->
         [nombre |-> o[k].nombre, stock |-> o[k].stock, estado |-> Estado(o[k].stock)]]
     : o \in OrdersByStock({p \in d.rows["productos"] : p.stock < LowStock})}

\* generate_analytics: what its queries return and its loops print, or None
\* when a table is missing; productos_mas_vendidos and promedio_ventas are
\* printed as fetched and cannot raise
AnalyticsQueries(d) ==
    IF ~Exists(d, "productos") \/ ~Exists(d, "ventas") THEN {None}
    ELSE {Some([ventas_por_dia |-> VentasPorDia(d), stock_critico |-> s])
          : s \in StockCritico(d)}

\* integer division of PostgreSQL: the quotient is truncated toward zero
TruncDiv(a, b) ==
    IF (a >= 0) = (b > 0) THEN (IF a >= 0 THEN a ELSE -a) \div (IF b > 0 THEN b ELSE -b)
    ELSE -((IF a >= 0 THEN a ELSE -a) \div (IF b > 0 THEN b ELSE -b))

\* (SELECT COUNT(DISTINCT DATE_TRUNC('day', fecha_venta)) FROM ventas)
TotalDias(d) == Cardinality({DateOf(v.fecha_venta) : v \in d.rows["ventas"]})

\* COALESCE(SUM(v.cantidad), 0) of productos p LEFT JOIN ventas v
TotalVendido(d, p) == SumCantidad({v \in d.rows["ventas"] : v.producto_id = p.id})

\* x / NULLIF(y, 0) on integers: None is NULL
DivNullIf(x, y) == IF y = 0 THEN None ELSE Some(TruncDiv(x, y))

\* total_vendido / NULLIF(total_dias, 0)
VentasPorDiaDe(d, p) == DivNullIf(TotalVendido(d, p), TotalDias(d))

\* stock / NULLIF(total_vendido / NULLIF(total_dias, 0), 0)
DiasRestantes(d, p) ==
    IF VentasPorDiaDe(d, p) = None THEN None
    ELSE DivNullIf(p.stock, VentasPorDiaDe(d, p)[1])

CriticalDays == 7
AttentionDays == 14

\* CASE WHEN ... < 7 ... WHEN ... < 14 ... ELSE ... END: a comparison with NULL
\* is not true
EstadoProyectado(dias) ==
    IF dias # None /\ dias[1] < CriticalDays THEN "Critico"
    ELSE IF dias # None /\ dias[1] < AttentionDays THEN "Atencion"
    ELSE "Normal"

\* projection_queries["proyeccion_productos"] and the loop that prints it:
\* the rows fetched (their order left out), each with what is printed for
\* it. tendencia_mensual is printed as fetched before it and cannot raise
ProyeccionProductos(d) ==
    {[nombre |-> p.nombre, stock |-> p.stock,
      ventas_por_dia |-> VentasPorDiaDe(d, p),
      dias_restantes_stock |-> DiasRestantes(d, p),
      estado_proyectado |-> EstadoProyectado(DiasRestantes(d, p)),
      printed |-> IF DiasRestantes(d, p) # None THEN "dias" ELSE "insuficientes"]
     : p \in {q \in d.rows["productos"] : TotalVendido(d, q) > 0}}

\* generate_projections: None when a table is missing
ProjectionQueries(d) ==
    IF ~Exists(d, "productos") \/ ~Exists(d, "ventas") THEN None
    ELSE Some([proyeccion_productos |-> ProyeccionProductos(d)])

\* inventario_valor: SUM over no rows is NULL, and formatting None with
\* ":.2f" raises TypeError inside the try block
AdvancedQueries(d) ==
    IF ~Exists(d, "productos") \/ ~Exists(d, "ventas") \/ d.rows["productos"] = {}
    THEN None ELSE Some({})

ExecGenerateAnalytics ==
    /\ pc = "execute" /\ cur = "generate_analytics"
    /\ \E shown \in AnalyticsQueries(tx[1]) : Execute("generate_analytics", tx, -1, shown)

ExecGenerateAdvancedAnalytics ==
    Execute("generate_advanced_analytics", tx, -1, AdvancedQueries(tx[1]))

ExecGenerateProjections ==
    Execute("generate_projections", tx, -1, ProjectionQueries(tx[1]))

\* both TRUNCATE statements of insert_sample_data
TruncateBoth(d) ==
    IF TruncateVentas(d) = None THEN None ELSE TruncateProductos(TruncateVentas(d)[1])

\* one statement of insert_sample_data, between positions from and to
LoaderStep(from, to, result) ==
    /\ pc = from /\ cur = "insert_sample_data"
    /\ IF result = None
       THEN Rejected
       ELSE /\ tx' = result
            /\ pc' = to
            /\ steps' = steps + 1
            /\ UNCHANGED <<prog, opcion, cur, inp, db, conn, logconn, leaked, rowcount, flags,
                           pre, out>>

ExecTruncate == LoaderStep("execute", "load_productos", TruncateBoth(tx[1]))

ExecLoadProductos ==
    LoaderStep("load_productos", "load_ventas",
               ExecuteMany("productos", tx[1], productos_ejemplo, 1))

ExecLoadVentas ==
    LoaderStep("load_ventas", "commit",
               ExecuteMany("ventas", tx[1], ventas_ejemplo, 1))

\* the connection drops while a statement runs
ExecuteLost == pc \in {"execute", "load_productos", "load_ventas"} /\ Lost

\* conn.commit()
Commit ==
    /\ pc = "commit"
    /\ db' = tx[1]
    /\ tx' = None
    /\ flags' = [flags EXCEPT !.primary = TRUE]
    /\ pc' = IF CallsLog(cur, rowcount) THEN "log_connect" ELSE "close"
    /\ steps' = steps + 1
    /\ UNCHANGED <<prog, opcion, cur, inp, conn, logconn, leaked, rowcount, pre, out>>

\* the connection drops before the commit reaches the server
CommitLost == pc = "commit" /\ Lost

\* log_operation: conn = get_connection()
LogConnect ==
    /\ pc = "log_connect"
    /\ logconn' = "open"
    /\ pc' = "log_execute"
    /\ steps' = steps + 1
    /\ UNCHANGED <<prog, opcion, cur, inp, db, tx, conn, leaked, rowcount, flags, pre, out>>

\* log_operation: get_connection() raises, its own except branch prints
LogConnectFail ==
    /\ pc = "log_connect"
    /\ out' = [out EXCEPT !.logerror = TRUE]
    /\ pc' = "close"
    /\ steps' = steps + 1
    /\ UNCHANGED <<prog, opcion, cur, inp, db, tx, conn, logconn, leaked, rowcount, flags, pre>>

\* log_operation: execute the INSERT, commit, close cursor and connection
LogExecute ==
    /\ pc = "log_execute"
    /\ InsertLog(db, LogKind(cur)) # None
    /\ db' = InsertLog(db, LogKind(cur))[1]
    /\ logconn' = "closed"
    /\ flags' = [flags EXCEPT !.log = TRUE]
    /\ pc' = "close"
    /\ steps' = steps + 1
    /\ UNCHANGED <<prog, opcion, cur, inp, tx, conn, leaked, rowcount, pre, out>>

\* a log_operation without its try/except: the exception reaches the except
\* branch of the handler that called it
LogExecuteFailUncaught ==
    /\ pc = "log_execute"
    /\ logconn' = "closed"
    /\ conn' = "closed"
    /\ leaked' = leaked + 1
    /\ out' = [out EXCEPT !.status = "error", !.error = "rejected", !.at = pc]
    /\ pc' = "done"
    /\ steps' = steps + 1
    /\ UNCHANGED <<prog, opcion, cur, inp, db, tx, rowcount, flags, pre>>

\* log_operation: the INSERT raises (table missing, connection dropped); the
\* except branch of log_operation prints and returns to the handler
LogExecuteFail ==
    /\ pc = "log_execute"
    /\ logconn' = "closed"
    /\ leaked' = leaked + 1
    /\ out' = [out EXCEPT !.logerror = TRUE]
    /\ pc' = "close"
    /\ steps' = steps + 1
    /\ UNCHANGED <<prog, opcion, cur, inp, db, tx, conn, rowcount, flags, pre>>

\* cursor.close(); conn.close() and the handler's closing message
Close ==
    /\ pc = "close"
    /\ conn' = "closed"
    /\ tx' = None
    /\ out' = [out EXCEPT !.status =
                 IF cur \in {"update_data", "delete_data"} /\ ~(rowcount > 0)
                 THEN "notfound" ELSE "ok"]
    /\ pc' = "done"
    /\ steps' = steps + 1
    /\ UNCHANGED <<prog, opcion, cur, inp, db, logconn, leaked, rowcount, flags, pre>>

\* the handler returns; the while loop shows the menu again
Return ==
    /\ pc = "done"
    /\ pc' = "menu"
    /\ cur' = "none"
    /\ inp' = NoInput
    /\ rowcount' = -1
    /\ flags' = NoFlags
    /\ pre' = None
    /\ out' = NoOut
    /\ opcion' = NoOption
    /\ steps' = 0
    /\ UNCHANGED <<prog, db, tx, conn, logconn, leaked>>

\* the interpreter finalizes an abandoned connection object
Finalize ==
    /\ leaked > 0
    /\ leaked' = leaked - 1
    /\ steps' = steps
    /\ UNCHANGED <<prog, opcion, pc, cur, inp, db, tx, conn, logconn, rowcount, flags, pre, out>>

\* the steps of a handler that has been dispatched
HandlerStep ==
    \/ Connect \/ ConnectFail
    \/ ExecCreateTables \/ ExecInsertCurso \/ ExecViewCursos \/ ExecInsertData
    \/ ExecFetchData \/ ExecUpdateData \/ ExecDeleteData \/ ExecViewLogs
    \/ ExecCreateInventoryTables \/ ExecInsertProduct \/ ExecViewProducts
    \/ ExecInsertSale \/ ExecViewSales \/ ExecGenerateAnalytics
    \/ ExecGenerateAdvancedAnalytics \/ ExecGenerateProjections
    \/ ExecTruncate \/ ExecLoadProductos \/ ExecLoadVentas
    \/ ExecuteLost
    \/ Commit \/ CommitLost
    \/ LogConnect \/ LogConnectFail \/ LogExecute \/ LogExecuteFail
    \/ Close \/ Return

Next == MainMenu \/ InventoryMenu \/ HandlerStep \/ Finalize

Spec == Init /\ [][Next]_vars

(***************************************************************************)
(* Properties.                                                             *)
(***************************************************************************)
\* handler h has finished and its report is on the console
Done(h) == pc = "done" /\ cur = h

\* rows of table t when the handler was dispatched, and now
Before(t) == pre[1].rows[t]
After(t) == db.rows[t]

\* the identifier typed is a number and the statement reached the database
IdUsable == Int4In(inp.alumno_id) # None /\ Exists(pre[1], "alumnos")
NoRowHasId == \A r \in Before("alumnos") : r.id # Int4In(inp.alumno_id)[1]

\* C1: when update_data is given an identifier no alumnos row has, it prints
\* the "not found" message with a row count of zero, not an error, and the
\* committed tables are the same as before, whatever alumnos contained; only
\* a lost connection makes it print an error instead (and changes nothing)
C1_UpdateNotFound ==
    (Done("update_data") /\ IdUsable /\ NoRowHasId) =>
        /\ Contents(db) = Contents(pre[1])
        /\ out.error # "connection" => out.status = "notfound" /\ rowcount = 0
        /\ out.error = "connection" => out.status = "error"

C1_Witness ==
    /\ Done("update_data") /\ IdUsable /\ NoRowHasId
    /\ Cardinality(Before("alumnos")) = 2
    /\ out.status = "notfound"

\* C2: delete_data with an identifier no row has reports not found with zero
\* rows affected and changes nothing; with the identifier of a row it removes
\* that row and only that row, every other alumnos row and every cursos row
\* staying as it was (a lost connection: error, nothing changed)
C2_DeleteExactlyThatRow ==
    (Done("delete_data") /\ IdUsable) =>
        /\ After("cursos") = Before("cursos") /\ db.schema = pre[1].schema
        /\ out.error = "connection" =>
              out.status = "error" /\ Contents(db) = Contents(pre[1])
        /\ (out.error # "connection" /\ NoRowHasId) =>
              out.status = "notfound" /\ rowcount = 0 /\ Contents(db) = Contents(pre[1])
        /\ (out.error # "connection" /\ ~NoRowHasId) =>
              /\ out.status = "ok" /\ rowcount = 1
              /\ After("alumnos") =
                    {r \in Before("alumnos") : r.id # Int4In(inp.alumno_id)[1]}
              /\ Cardinality(After("alumnos")) = Cardinality(Before("alumnos")) - 1

C2_Witness ==
    /\ Done("delete_data") /\ IdUsable /\ ~NoRowHasId
    /\ out.status = "ok"
    /\ Cardinality(Before("alumnos")) = 2
    /\ Cardinality(After("alumnos")) = 1

\* the decimal number typed, as digits m and a count k of decimals: m / 10^k
TypedDigits(text) ==
    LET body == Unsigned(RStrip(LStrip(text)))
    IN  SignOf(RStrip(LStrip(text))) * DigitsVal(StripZeros(BeforeDot(body)) \o AfterDot(body))
TypedDecimals(text) == Len(AfterDot(Unsigned(RStrip(LStrip(text)))))

Abs(n) == IF n < 0 THEN 0 - n ELSE n

\* c hundredths is exactly the number typed
SamePrice(c, text) ==
    c * Pow10(TypedDecimals(text)) = TypedDigits(text) * Pow10(PrecioScale)

\* c hundredths is the number typed, rounded to the nearest hundredth, a
\* half going away from zero
NearestPrice(c, text) ==
    LET stored == c * Pow10(TypedDecimals(text))
        typed == TypedDigits(text) * Pow10(PrecioScale)
        unit == Pow10(TypedDecimals(text))
    IN  /\ 2 * Abs(stored - typed) <= unit
        /\ 2 * Abs(stored - typed) = unit => Abs(stored) > Abs(typed)

\* the row a successful insert_product added
NewProducts == After("productos") \ Before("productos")

\* what view_products prints is the committed content of productos
ViewShowsTable ==
    (Done("view_products") /\ out.status = "ok") =>
        /\ out.rows = After("productos")
        /\ Contents(db) = Contents(pre[1])

\* C3 as stated: the row read back carries exactly the values typed
C3_ExactValuesReadBack ==
    /\ ViewShowsTable
    /\ (Done("insert_product") /\ out.status = "ok") =>
          /\ Before("productos") \subseteq SelectProducts(db)[1]
          /\ \E r \in SelectProducts(db)[1] :
                /\ NewProducts = {r}
                /\ \A q \in After("productos") : q.id = r.id => q = r
                /\ r.nombre = inp.nombre
                /\ r.stock = Int4In(inp.stock)[1]
                /\ SamePrice(r.precio, inp.precio)

\* C3 (amended): after a successful insert_product, view_products returns the
\* rows that were there before, unchanged, and one new row with the name
\* typed, the stock typed as an integer, the price typed rounded to two
\* decimals (DECIMAL(10, 2)) and an identifier no other row has
C3_RoundedValuesReadBack ==
    /\ ViewShowsTable
    /\ (Done("insert_product") /\ out.status = "ok") =>
          /\ Before("productos") \subseteq SelectProducts(db)[1]
          /\ \E r \in SelectProducts(db)[1] :
                /\ NewProducts = {r}
                /\ \A q \in After("productos") : q.id = r.id => q = r
                /\ r.nombre = inp.nombre
                /\ r.stock = Int4In(inp.stock)[1]
                /\ NearestPrice(r.precio, inp.precio)
                /\ SamePrice(r.precio, inp.precio) \/ TypedDecimals(inp.precio) > PrecioScale

C3_Witness ==
    /\ Done("view_products") /\ out.status = "ok"
    /\ \E r, q \in out.rows :
          /\ r.id # q.id
          /\ r.nombre = "Cable" /\ r.precio = 100 /\ r.stock = 12
          /\ q.nombre = "Laptop Gaming" /\ q.precio = 129999 /\ q.stock = 5

\* every ventas row refers to a productos row
ForeignKeysHold(d) ==
    \A v \in d.rows["ventas"] : v.producto_id \in Ids(d.rows["productos"])

\* the product number typed for a sale is a number, the quantity too, and
\* the tables exist, so that only the foreign key can reject the INSERT
SaleUsable ==
    /\ Int4In(inp.producto_id) # None /\ Int4In(inp.cantidad) # None
    /\ Exists(pre[1], "ventas") /\ Exists(pre[1], "productos")

\* C4: insert_sale with a product number that no productos row has prints an
\* error and adds no ventas row; in every reachable state, committed or
\* inside a transaction, each ventas row refers to an existing productos row
C4_ForeignKeyEnforced ==
    /\ ForeignKeysHold(db)
    /\ tx # None => ForeignKeysHold(tx[1])
    /\ (Done("insert_sale") /\ SaleUsable
          /\ Int4In(inp.producto_id)[1] \notin Ids(Before("productos"))) =>
          /\ out.status = "error"
          /\ Contents(db) = Contents(pre[1])

C4_Witness ==
    /\ Done("insert_sale") /\ SaleUsable
    /\ Int4In(inp.producto_id)[1] \notin Ids(Before("productos"))
    /\ Before("productos") # {}
    /\ out.status = "error" /\ out.error = "rejected"

CreateHandlers == {"create_tables", "create_inventory_tables"}
DataTables == {"productos", "ventas", "cursos", "alumnos"}

\* C5: when create_tables or create_inventory_tables has run, whatever ran
\* before it, every table that existed still exists with the same columns,
\* and the rows of productos, ventas, cursos and alumnos are the same; run on
\* a database that has its tables already, the set of tables is the same too
C5_CreateIdempotent ==
    (pc = "done" /\ cur \in CreateHandlers) =>
        /\ \A t \in AllTables : Exists(pre[1], t) => db.schema[t] = pre[1].schema[t]
        /\ \A t \in DataTables : After(t) = Before(t)
        /\ \A t \in AllTables : Exists(db, t) => db.schema[t] = ColumnDefs(t)
        /\ (out.status = "ok" /\ cur = "create_tables"
              /\ \A t \in MainTables : Exists(pre[1], t)) => db.schema = pre[1].schema
        /\ (out.status = "ok" /\ cur = "create_inventory_tables"
              /\ \A t \in InventoryTables : Exists(pre[1], t)) => db.schema = pre[1].schema

C5_Witness ==
    /\ Done("create_tables") /\ out.status = "ok"
    /\ \A t \in MainTables : Exists(pre[1], t)
    /\ Before("alumnos") # {} /\ Before("cursos") # {}
    /\ After("alumnos") = Before("alumnos")

\* how many steps a handler at position p still has before the menu, at most
StepsLeft(p) ==
    CASE p = "connect" -> 9 [] p = "execute" -> 8 [] p = "load_productos" -> 7
      [] p = "load_ventas" -> 6 [] p = "commit" -> 5 [] p = "log_connect" -> 4
      [] p = "log_execute" -> 3 [] p = "close" -> 2 [] p = "done" -> 1
      [] OTHER -> 0

InHandler == pc \notin {"menu", "exited"}

Handlers ==
    {"create_tables", "insert_curso", "view_cursos", "insert_data", "fetch_data",
     "update_data", "delete_data", "view_logs", "create_inventory_tables",
     "insert_sample_data", "insert_product", "view_products", "insert_sale",
     "view_sales", "generate_analytics", "generate_advanced_analytics",
     "generate_projections"}

\* the guards of the handler steps: at its position the handler has a
\* statement to go on with
HasNextStep ==
    \/ pc \in {"connect", "log_connect", "log_execute", "close"} /\ cur \in Handlers
    \/ pc = "execute" /\ cur \in Handlers /\ tx # None
    \/ pc \in {"load_productos", "load_ventas"} /\ cur = "insert_sample_data" /\ tx # None
    \/ pc = "commit" /\ tx # None
    \/ pc = "done"

\* C6: no failure while an option is handled ends the process or stops the
\* loop: a handler that has been dispatched can always take its next step and
\* is back at the menu after nine steps at most, whatever fails on the way;
\* an error leaves it at its last step, the report; and the loop is left only
\* through the exit option
C6_MenuAlwaysResumes ==
    /\ pc = "exited" => (cur = "exit" /\ out.status = "exit")
    /\ InHandler => (HasNextStep /\ steps + StepsLeft(pc) <= StepsLeft("connect"))
    /\ out.status = "error" => pc = "done"
    /\ pc = "menu" => (steps = 0 /\ cur = "none")

C6_Witness ==
    /\ pc = "done" /\ out.status = "error" /\ out.error = "rejected"
    /\ cur = "insert_sample_data" /\ leaked = 1

\* handlers of main.py that change alumnos or cursos and then log the change
ChangeHandlers == {"insert_curso", "insert_data", "update_data", "delete_data"}

\* the invocation made a change and passes it to log_operation
ChangeToLog == cur \in ChangeHandlers /\ rowcount > 0 /\ pc \notin {"execute", "connect"}

\* C7 as stated: the change and its log entry are committed together, never
\* one without the other
C7_ChangeAndLogTogether == ChangeToLog => (flags.primary <=> flags.log)

\* C7 (amended): the change is committed in the handler's transaction and
\* its log entry afterwards, in a transaction of log_operation's own
\* connection: the log entry of an invocation is never committed while its
\* change is not (the change may be committed without the entry), and a
\* committed entry is the last row of operaciones_log
C7_LogOnlyAfterCommit ==
    /\ (cur \in ChangeHandlers /\ flags.log) =>
          /\ flags.primary
          /\ tx = None
          /\ Len(After("operaciones_log")) = Len(Before("operaciones_log")) + 1
          /\ After("operaciones_log")[Len(After("operaciones_log"))].operacion = LogKind(cur)
          /\ cur = "insert_data" =>
                Cardinality(After("alumnos")) = Cardinality(Before("alumnos")) + 1
          /\ cur = "insert_curso" =>
                Cardinality(After("cursos")) = Cardinality(Before("cursos")) + 1
          /\ cur = "delete_data" =>
                Cardinality(After("alumnos")) = Cardinality(Before("alumnos")) - 1
          /\ cur = "update_data" =>
                \E r \in After("alumnos") :
                    r.id = Int4In(inp.alumno_id)[1] /\ r.nombre = inp.nuevo_nombre
    /\ (cur \in ChangeHandlers /\ pc = "log_execute") => (flags.primary /\ ~flags.log)

C7_Witness ==
    /\ Done("insert_data") /\ out.status = "ok"
    /\ flags.primary /\ ~flags.log
    /\ After("alumnos") # Before("alumnos")
    /\ After("operaciones_log") = Before("operaciones_log")

\* connections opened with get_connection() and not closed by close()
OpenConnections ==
    (IF conn = "open" THEN 1 ELSE 0) + (IF logconn = "open" THEN 1 ELSE 0) + leaked

\* C8: at most one connection is open at any time, and none is open while the
\* menu awaits input
C8_OneConnectionAtATime ==
    /\ OpenConnections <= 1
    /\ pc = "menu" => OpenConnections = 0

\* C9: a handler that ends in its error branch has committed nothing: tables,
\* columns and rows are those of the moment it was dispatched, also when
\* insert_sample_data fails after its TRUNCATE statements
C9_FailureCommitsNothing ==
    (pc = "done" /\ out.status = "error") => Contents(db) = Contents(pre[1])

C9_Witness ==
    /\ Done("insert_sample_data") /\ out.status = "error"
    /\ out.at \in {"load_productos", "load_ventas", "commit"}
    /\ Before("productos") # {} /\ Before("ventas") # {}
    /\ After("productos") = Before("productos")

\* the tables insert_sample_data is to leave behind, written out
SamplePrices == <<129999, 19999, 8999, 4999, 7999, 5999, 1999, 2999>>

SampleProductos ==
    {[id |-> k, nombre |-> productos_ejemplo[k].nombre, precio |-> SamplePrices[k],
      stock |-> productos_ejemplo[k].stock] : k \in 1..8}

SampleVentas ==
    {[id |-> k, producto_id |-> ventas_ejemplo[k][1], cantidad |-> ventas_ejemplo[k][2],
      fecha_venta |-> TimestampIn(ventas_ejemplo[k][3])] : k \in 1..46}

\* C10: after a successful insert_sample_data, whatever the tables held,
\* productos is the 8 listed products numbered 1..8 in list order and ventas
\* the 46 listed sales with their dates, each for an existing product; the
\* sequences stand at 8 and 46, so a second run ends in the same state
C10_SampleDataExact ==
    (Done("insert_sample_data") /\ out.status = "ok") =>
        /\ After("productos") = SampleProductos
        /\ After("ventas") = SampleVentas
        /\ Cardinality(After("productos")) = 8 /\ Cardinality(After("ventas")) = 46
        /\ db.seq["productos"] = 8 /\ db.seq["ventas"] = 46
        /\ ForeignKeysHold(db)
        /\ \A v \in After("ventas") :
              v.fecha_venta.secs = 0 /\ v.fecha_venta.day \in 20240101..20240325
        /\ \E v \in After("ventas") :
              v.id = 46 /\ v.producto_id = 2 /\ v.cantidad = 3 /\ v.fecha_venta.day = 20240325
        /\ \A t \in MainTables : After(t) = Before(t)
        /\ db.schema = pre[1].schema

C10_Witness ==
    /\ Done("insert_sample_data") /\ out.status = "ok"
    /\ SampleProductos \subseteq Before("productos")
    /\ Cardinality(Before("productos")) = 9
    /\ Cardinality(Before("ventas")) = 47
    /\ After("productos") = SampleProductos

\* the ventas rows dated a given day
SalesDated(dia) == {v \in After("ventas") : v.fecha_venta.day = dia}

\* the sum over a set of ventas rows of cantidad times the price of the
\* product the row references, in hundredths
RECURSIVE Revenue(_)
Revenue(sales) ==
    IF sales = {} THEN 0
    ELSE LET v == CHOOSE x \in sales : TRUE
             p == CHOOSE x \in After("productos") : x.id = v.producto_id
         IN  v.cantidad * p.precio + Revenue(sales \ {v})

\* C11: every day of the sales-per-day report of generate_analytics carries
\* the count of the ventas rows dated that day and the sum of cantidad times
\* the product's price over them; the report shows at most 7 days, the most
\* recent days that have sales (on the sample data the last day, 2024-03-25,
\* shows 2 sales and 3199.95)
C11_SalesPerDayExact ==
    (Done("generate_analytics") /\ out.status = "ok") =>
        LET r == out.rows.ventas_por_dia IN
        /\ Len(r) <= 7
        /\ \A k \in 1..Len(r) :
              /\ SalesDated(r[k].dia) # {}
              /\ r[k].total_ventas = Cardinality(SalesDated(r[k].dia))
              /\ r[k].ingresos_total = Revenue(SalesDated(r[k].dia))
              /\ \A j \in 1..Len(r) : j # k => r[j].dia # r[k].dia
        /\ \A v \in After("ventas") :
              \/ \E k \in 1..Len(r) : r[k].dia = v.fecha_venta.day
              \/ Len(r) = 7 /\ \A k \in 1..Len(r) : r[k].dia > v.fecha_venta.day
        /\ (After("ventas") = SampleVentas /\ After("productos") = SampleProductos) =>
              /\ r[1] = [dia |-> 20240325, total_ventas |-> 2, ingresos_total |-> 319995]
              /\ Len(r) = 7 /\ r[7].dia = 20240319

C11_Witness ==
    /\ Done("generate_analytics") /\ out.status = "ok"
    /\ Len(out.rows.ventas_por_dia) = 7
    /\ Cardinality(After("ventas")) = 47
    /\ out.rows.ventas_por_dia[1].total_ventas = 3
    /\ Cardinality({v.fecha_venta.day : v \in After("ventas")}) > 7

\* the handler each menu line announces, as the menus print them
Announced ==
    [main |-> [x \in MainOptions |->
                 CASE x = "1" -> "create_tables"
                   [] x = "2.1" -> "insert_curso"
                   [] x = "2.2" -> "view_cursos"
                   [] x = "3.1" -> "insert_data"
                   [] x = "3.2" -> "fetch_data"
                   [] x = "3.3" -> "update_data"
                   [] x = "3.4" -> "delete_data"
                   [] x = "4" -> "view_logs"
                   [] x = "5" -> "exit"],
     inventory |-> [x \in InventoryOptions |->
                 CASE x = "1" -> "create_inventory_tables"
                   [] x = "2" -> "insert_sample_data"
                   [] x = "3.1" -> "insert_product"
                   [] x = "3.2" -> "view_products"
                   [] x = "4.1" -> "insert_sale"
                   [] x = "4.2" -> "view_sales"
                   [] x = "5.1" -> "generate_analytics"
                   [] x = "5.2" -> "generate_advanced_analytics"
                   [] x = "5.3" -> "generate_projections"
                   [] x = "6" -> "exit"]]

ExitOption == [main |-> "5", inventory |-> "6"]

CommittedLog == db.rows["operaciones_log"]

\* C13: operaciones_log is append-only: every step of either program leaves
\* the committed log entries in place and unmodified, and adds at most one
\* entry, after the last one
C13_LogAppendOnly ==
    [][/\ Len(CommittedLog') \in {Len(CommittedLog), Len(CommittedLog) + 1}
       /\ SubSeq(CommittedLog', 1, Len(CommittedLog)) = CommittedLog
       /\ Len(CommittedLog') = Len(CommittedLog) + 1 =>
             \A k \in 1..Len(CommittedLog) :
                 CommittedLog[k].id < CommittedLog'[Len(CommittedLog')].id
       /\ Exists(db, "operaciones_log") =>
             db'.schema["operaciones_log"] = db.schema["operaciones_log"]]_vars

C13_Witness ==
    /\ pc = "done" /\ flags.log /\ cur = "delete_data"
    /\ Len(Before("operaciones_log")) >= 1
    /\ Len(After("operaciones_log")) = Len(Before("operaciones_log")) + 1
    /\ SubSeq(After("operaciones_log"), 1, Len(Before("operaciones_log")))
           = Before("operaciones_log")

\* C14: the low-stock alert of generate_analytics lists exactly the products
\* whose stock is below 10, in ascending order of stock, each labelled
\* 'Sin stock' for a stock of 0, 'Critico' for a stock below 5 other than 0
\* and 'Bajo' for a stock from 5 to 9; 'Normal' is never shown
C14_LowStockAlert ==
    (Done("generate_analytics") /\ out.status = "ok") =>
        LET r == out.rows.stock_critico IN
        /\ Len(r) = Cardinality({p \in After("productos") : p.stock < 10})
        /\ \A p \in After("productos") :
              p.stock < 10 <=>
                 \E k \in 1..Len(r) : r[k].nombre = p.nombre /\ r[k].stock = p.stock
        /\ \A k \in 1..Len(r) :
              /\ \E p \in After("productos") :
                    p.nombre = r[k].nombre /\ p.stock = r[k].stock /\ p.stock < 10
              /\ \A j \in 1..k : r[j].stock <= r[k].stock
              /\ r[k].estado # "Normal"
              /\ r[k].stock = 0 <=> r[k].estado = "Sin stock"
              /\ (r[k].stock < 5 /\ r[k].stock # 0) <=> r[k].estado = "Critico"
              /\ (r[k].stock >= 5 /\ r[k].stock <= 9) <=> r[k].estado = "Bajo"

C14_Witness ==
    /\ Done("generate_analytics") /\ out.status = "ok"
    /\ \A e \in {"Sin stock", "Critico", "Bajo"} :
          \E k \in 1..Len(out.rows.stock_critico) : out.rows.stock_critico[k].estado = e
    /\ \E p \in After("productos") : p.stock >= 10
    /\ Len(out.rows.stock_critico) = 4

\* units of a product sold, and the distinct days that have sales
RECURSIVE UnitsIn(_)
UnitsIn(sales) ==
    IF sales = {} THEN 0
    ELSE LET v == CHOOSE x \in sales : TRUE IN v.cantidad + UnitsIn(sales \ {v})

UnitsSold(p) == UnitsIn({v \in After("ventas") : v.producto_id = p.id})
DaysWithSales == Cardinality({v.fecha_venta.day : v \in After("ventas")})

\* C15: generate_projections never fails on a division by zero, and for
\* each product with at least one unit sold the days remaining are the stock
\* divided by the daily sell-through, units sold over days with sales (here
\* to within one day, for the rounding of the report); the value is absent,
\* and 'insufficient data' printed, only when that sell-through is zero
C15_DaysRemainingIsStockOverSellThrough ==
    /\ (Done("generate_projections") /\ out.status = "error") =>
          (~Exists(db, "productos") \/ ~Exists(db, "ventas") \/ out.error = "connection")
    /\ (Done("generate_projections") /\ out.status = "ok") =>
          \A p \in After("productos") :
             UnitsSold(p) > 0 =>
                \E r \in out.rows.proyeccion_productos :
                   /\ r.nombre = p.nombre /\ r.stock = p.stock
                   /\ IF UnitsSold(p) = 0 \/ DaysWithSales = 0
                      THEN r.dias_restantes_stock = None /\ r.printed = "insuficientes"
                      ELSE /\ r.dias_restantes_stock # None /\ r.printed = "dias"
                           /\ Abs(r.dias_restantes_stock[1] * UnitsSold(p)
                                  - p.stock * DaysWithSales) < UnitsSold(p)

\* the invocation is inside log_operation or has committed its log entry
Logging == pc \in {"log_connect", "log_execute"} \/ flags.log

\* C16: update_data and delete_data call log_operation only after their
\* statement was committed and only when it matched a row; an invocation
\* that matched nothing, or whose statement failed, leaves operaciones_log as
\* it was; so the entry an invocation appends is the last of the log, names
\* its operation, and stands for a change that is committed
C16_LogOnlyForCommittedMatch ==
    /\ (cur \in {"update_data", "delete_data"} /\ Logging) =>
          /\ flags.primary /\ rowcount > 0 /\ tx = None
          /\ \E r \in Before("alumnos") : r.id = Int4In(inp.alumno_id)[1]
          /\ cur = "delete_data" =>
                \A r \in After("alumnos") : r.id # Int4In(inp.alumno_id)[1]
          /\ cur = "update_data" =>
                \E r \in After("alumnos") :
                    r.id = Int4In(inp.alumno_id)[1] /\ r.nombre = inp.nuevo_nombre
    /\ (cur \in {"insert_data", "insert_curso"} /\ Logging) =>
          /\ flags.primary /\ tx = None
          /\ cur = "insert_data" => After("alumnos") # Before("alumnos")
          /\ cur = "insert_curso" => After("cursos") # Before("cursos")
    /\ (pc = "done" /\ out.status \in {"notfound", "error"}) =>
          (~flags.log /\ After("operaciones_log") = Before("operaciones_log"))
    /\ (pc \in {"close", "done"} /\ cur \in {"update_data", "delete_data"}
          /\ ~(rowcount > 0)) =>
          (~flags.log /\ After("operaciones_log") = Before("operaciones_log"))
    /\ (pc # "menu" /\ flags.log) =>
          /\ Len(After("operaciones_log")) = Len(Before("operaciones_log")) + 1
          /\ After("operaciones_log")[Len(After("operaciones_log"))].operacion
                = LogKind(cur)

C16_Witness ==
    /\ Done("update_data") /\ out.status = "notfound"
    /\ flags.primary /\ ~flags.log /\ rowcount = 0
    /\ Before("alumnos") # {} /\ Len(Before("operaciones_log")) > 0
    /\ After("operaciones_log") = Before("operaciones_log")

\* handlers that commit before they call log_operation
CommitThenLog == ChangeHandlers \cup {"create_tables"}

\* C17: a failure inside log_operation stays inside it: the handler that
\* called it does not reach its own error branch, what it committed stays
\* committed, and it goes on to its success message and to closing its
\* cursor and connection
C17_LogFailureContained ==
    /\ out.status = "error" =>
          (out.at \notin {"log_connect", "log_execute"} /\ ~out.logerror)
    /\ (pc = "done" /\ flags.primary) => out.status \in {"ok", "notfound"}
    /\ out.logerror =>
        /\ pc \in {"close", "done"}
        /\ LogKind(cur) # "none"
        /\ out.status # "error" /\ out.error = "none" /\ out.at = "none"
        /\ ~flags.log /\ After("operaciones_log") = Before("operaciones_log")
        /\ cur \in CommitThenLog => flags.primary
        /\ cur = "insert_data" =>
              Cardinality(After("alumnos")) = Cardinality(Before("alumnos")) + 1
        /\ cur = "insert_curso" =>
              Cardinality(After("cursos")) = Cardinality(Before("cursos")) + 1
        /\ cur = "delete_data" =>
              Cardinality(After("alumnos")) = Cardinality(Before("alumnos")) - 1
        /\ cur = "update_data" =>
              \E r \in After("alumnos") :
                  r.id = Int4In(inp.alumno_id)[1] /\ r.nombre = inp.nuevo_nombre
        /\ cur = "create_tables" => \A t \in MainTables : Exists(db, t)
        /\ pc = "close" => conn = "open"
        /\ pc = "done" => (out.status = "ok" /\ conn = "closed" /\ tx = None)

C17_Witness ==
    /\ Done("insert_data") /\ out.logerror /\ out.status = "ok"
    /\ flags.primary /\ ~flags.log /\ conn = "closed"
    /\ After("alumnos") # Before("alumnos")

\* C18: registering a sale never changes productos: insert_sale, whatever
\* the product id and quantity typed (a quantity above the product's stock
\* included), adds at most one row to ventas and leaves name, price and stock
\* of every product as they were
C18_SaleLeavesProductsAlone ==
    cur = "insert_sale" =>
        /\ After("productos") = Before("productos")
        /\ tx # None => tx[1].rows["productos"] = Before("productos")
        /\ db.schema = pre[1].schema
        /\ Before("ventas") \subseteq After("ventas")
        /\ Cardinality(After("ventas")) <= Cardinality(Before("ventas")) + 1
        /\ (pc = "done" /\ out.status = "ok") =>
              Cardinality(After("ventas")) = Cardinality(Before("ventas")) + 1
        /\ (pc = "done" /\ out.status # "ok") => After("ventas") = Before("ventas")

C18_Witness ==
    /\ Done("insert_sale") /\ out.status = "ok"
    /\ \E v \in After("ventas") \ Before("ventas") :
          \E p \in After("productos") :
              p.id = v.producto_id /\ v.cantidad > p.stock /\ v.cantidad = 30

====
